---- MODULE Spec2Model ----
(***************************************************************************)
(* Sahara API (src/main.py, src/schemas.py): the request handlers over the *)
(* document store and the keyword emotion classifier.                      *)
(*                                                                         *)
(* A text is a sequence of one-character strings, so that lower-casing and *)
(* substring search are computed rather than assumed.  A handler is one    *)
(* atomic action: it makes at most one store call.                         *)
(***************************************************************************)
EXTENDS Integers, Sequences, FiniteSets, TLC

VARIABLES
    store,      \* the document store: collection name -> sequence of documents
    request,    \* the request being (or last) handled
    response,   \* the response to it, NoResponse while it is still pending
    calls,      \* the store calls the handler of `request` made
    created,    \* the last successful create: collection, submitted body, returned id
    inserts,    \* number of documents inserted during the run
    analysed    \* the first /analyze exchange seen for each text

vars == <<store, request, response, calls, created, inserts, analysed>>

-----------------------------------------------------------------------------
(* Bounds *)

MaxWords == 2       \* words per generated text
MaxCreates == 1     \* documents inserted during a run
Backlog == 100      \* documents per collection in the preloaded store

-----------------------------------------------------------------------------
(* Python values *)

None == "None"      \* reserved: no input domain below contains this string

Truthy(v) == v /= None /\ v /= ""

UpperLetters ==
    <<"A", "B", "C", "D", "E", "F", "G", "H", "I", "J", "K", "L", "M",
      "N", "O", "P", "Q", "R", "S", "T", "U", "V", "W", "X", "Y", "Z">>

LowerLetters ==
    <<"a", "b", "c", "d", "e", "f", "g", "h", "i", "j", "k", "l", "m",
      "n", "o", "p", "q", "r", "s", "t", "u", "v", "w", "x", "y", "z">>

LowerOf ==
    [c \in {UpperLetters[i] : i \in 1..26} |->
        LowerLetters[CHOOSE i \in 1..26 : UpperLetters[i] = c]]

UpperOf ==
    [c \in {LowerLetters[i] : i \in 1..26} |->
        UpperLetters[CHOOSE i \in 1..26 : LowerLetters[i] = c]]

lower_char(c) == IF c \in DOMAIN LowerOf THEN LowerOf[c] ELSE c

upper_char(c) == IF c \in DOMAIN UpperOf THEN UpperOf[c] ELSE c

\* str.lower() forgotten: the text is matched as typed
lower_AsTyped(text) == text

\* str.lower()
lower(text) == [i \in 1..Len(text) |-> lower_char(text[i])]

\* `w in text` for strings: w occurs as a contiguous substring
Contains(w, text) ==
    \E i \in 1..(Len(text) - Len(w) + 1) : SubSeq(text, i, i + Len(w) - 1) = w

\* any(w in text for w in words)
any_in(words, text) == \E k \in 1..Len(words) : Contains(words[k], text)

-----------------------------------------------------------------------------
(* The classifier: keyword lists and suggestion lists of analyze_emotion *)

SadWords ==
    << <<"s", "a", "d">>,
       <<"d", "o", "w", "n">>,
       <<"l", "o", "n", "e", "l", "y">>,
       <<"a", "l", "o", "n", "e">>,
       <<"t", "i", "r", "e", "d">> >>

AngerWords ==
    << <<"a", "n", "g", "r", "y">>,
       <<"m", "a", "d">>,
       <<"f", "r", "u", "s", "t", "r", "a", "t", "e", "d">>,
       <<"i", "r", "r", "i", "t", "a", "t", "e", "d">> >>

FearWords ==
    << <<"a", "n", "x", "i", "o", "u", "s">>,
       <<"w", "o", "r", "r", "i", "e", "d">>,
       <<"f", "e", "a", "r">>,
       <<"s", "c", "a", "r", "e", "d">> >>

BurnoutWords ==
    << <<"b", "u", "r", "n", "o", "u", "t">>,
       <<"e", "x", "h", "a", "u", "s", "t", "e", "d">>,
       <<"o", "v", "e", "r", "w", "o", "r", "k", "e", "d">>,
       <<"s", "t", "r", "e", "s", "s", "e", "d">> >>

Lonely == <<"l", "o", "n", "e", "l", "y">>
Alone == <<"a", "l", "o", "n", "e">>
Burnout == <<"b", "u", "r", "n", "o", "u", "t">>

SuggestionsA ==
    << "Try a 5-minute breathing exercise",
       "Reach out to a friend or join a community room",
       "Take a short walk and hydrate" >>

SuggestionsB ==
    << "Pause and note what triggered you",
       "Count 4-7-8 breaths",
       "Journal your thoughts for 3 minutes" >>

SuggestionsC ==
    << "Ground with 5-4-3-2-1 technique",
       "Limit caffeine and news for a bit",
       "Text a counselor if available" >>

SuggestionsD ==
    << "Schedule a 10-minute break block",
       "Delegate one small task",
       "Plan a wind-down routine tonight" >>

SuggestionsE ==
    << "Keep a gratitude note for today",
       "Share a supportive message in your community" >>

\* EmotionResponse(label, score, suggestions); the score is the decimal literal
EmotionResponse(label, suggestions) ==
    [label |-> label,
     score |-> IF label /= "neutral" THEN "0.8" ELSE "0.5",
     suggestions |-> suggestions]

\* the anger rule tested before the sadness rule
analyze_emotion_AngerFirst(req) ==
    LET text == lower(req.text) IN
    IF any_in(AngerWords, text) THEN EmotionResponse("anger", SuggestionsB)
    ELSE IF any_in(SadWords, text) THEN
        EmotionResponse(IF Contains(Lonely, text) \/ Contains(Alone, text)
                        THEN "loneliness" ELSE "sadness", SuggestionsA)
    ELSE IF any_in(FearWords, text) THEN EmotionResponse("fear", SuggestionsC)
    ELSE IF any_in(BurnoutWords, text) THEN
        EmotionResponse(IF Contains(Burnout, text) THEN "burnout" ELSE "stress",
                        SuggestionsD)
    ELSE EmotionResponse("neutral", SuggestionsE)

\* the burnout rule left out
analyze_emotion_NoBurnoutRule(req) ==
    LET text == lower(req.text) IN
    IF any_in(SadWords, text) THEN
        EmotionResponse(IF Contains(Lonely, text) \/ Contains(Alone, text)
                        THEN "loneliness" ELSE "sadness", SuggestionsA)
    ELSE IF any_in(AngerWords, text) THEN EmotionResponse("anger", SuggestionsB)
    ELSE IF any_in(FearWords, text) THEN EmotionResponse("fear", SuggestionsC)
    ELSE EmotionResponse("neutral", SuggestionsE)

\* the keyword rules applied to English requests only
analyze_emotion_ByLanguage(req) ==
    LET text == lower(req.text) IN
    IF req.language /= "en" THEN EmotionResponse("neutral", SuggestionsE)
    ELSE IF any_in(SadWords, text) THEN
        EmotionResponse(IF Contains(Lonely, text) \/ Contains(Alone, text)
                        THEN "loneliness" ELSE "sadness", SuggestionsA)
    ELSE IF any_in(AngerWords, text) THEN EmotionResponse("anger", SuggestionsB)
    ELSE IF any_in(FearWords, text) THEN EmotionResponse("fear", SuggestionsC)
    ELSE IF any_in(BurnoutWords, text) THEN
        EmotionResponse(IF Contains(Burnout, text) THEN "burnout" ELSE "stress",
                        SuggestionsD)
    ELSE EmotionResponse("neutral", SuggestionsE)

\* analyze_emotion(req: EmotionRequest) -> EmotionResponse
analyze_emotion(req) ==
    LET text == lower(req.text) IN
    IF any_in(SadWords, text) THEN
        EmotionResponse(IF Contains(Lonely, text) \/ Contains(Alone, text)
                        THEN "loneliness" ELSE "sadness", SuggestionsA)
    ELSE IF any_in(AngerWords, text) THEN EmotionResponse("anger", SuggestionsB)
    ELSE IF any_in(FearWords, text) THEN EmotionResponse("fear", SuggestionsC)
    ELSE IF any_in(BurnoutWords, text) THEN
        EmotionResponse(IF Contains(Burnout, text) THEN "burnout" ELSE "stress",
                        SuggestionsD)
    ELSE EmotionResponse("neutral", SuggestionsE)

-----------------------------------------------------------------------------
(* Input texts *)

Fillers ==
    << <<"a">>,
       <<"l", "o", "n", "e">>,
       <<"m", "a">>,
       <<"d">>,
       <<"n", "i", "c", "e">> >>

Range(s) == {s[i] : i \in 1..Len(s)}

Vocabulary ==
    Range(SadWords) \cup Range(AngerWords) \cup Range(FearWords)
        \cup Range(BurnoutWords) \cup Range(Fillers)

Separators == { <<>>, <<",", " ">> }

Casings == {"lower", "upper", "mixed"}

RECURSIVE Join(_, _)
Join(ws, sep) ==
    IF Len(ws) = 0 THEN <<>>
    ELSE IF Len(ws) = 1 THEN ws[1]
    ELSE ws[1] \o sep \o Join(Tail(ws), sep)

ApplyCase(mode, text) ==
    [i \in 1..Len(text) |->
        IF mode = "upper" \/ (mode = "mixed" /\ i % 2 = 1)
        THEN upper_char(text[i]) ELSE text[i]]

WordSeqs == UNION {[1..n -> Vocabulary] : n \in 0..MaxWords}

Texts == {ApplyCase(m, Join(ws, sep)) : ws \in WordSeqs, sep \in Separators, m \in Casings}

Languages == {"en", "hi"}

EmotionRequests == [text : Texts, language : Languages]

\* the text the full API specification analyses between store requests
SampleTexts ==
    { <<"I", " ", "a", "m", " ", "S", "A", "D", " ", "a", "n", "d", " ", "m", "a", "d">> }

SampleEmotionRequests == [text : SampleTexts, language : Languages]

-----------------------------------------------------------------------------
(* Schemas (src/schemas.py): a model is the set of its valid instances,   *)
(* the defaults are filled in before validation; an Optional[str] field   *)
(* is a string field, None being encoded as a string                      *)

EmailStr == {"a@x.org", "b@x.org"}

LoginRequest == [email : EmailStr, password : STRING]

AudienceLiteral == {"all", "teen", "young-adult", "adult", "senior"}

Post ==
    [user_id : STRING, content : STRING,
     audience : AudienceLiteral \cup {None}, tags : Seq(STRING)]

PostDefaults == [audience |-> "all", tags |-> <<>>]

Session ==
    [user_id : STRING, counselor_id : STRING, scheduled_at : STRING,
     mode : {"chat", "audio", "video"},
     status : {"pending", "confirmed", "completed", "cancelled"},
     notes : STRING]

SessionDefaults == [mode |-> "chat", status |-> "pending", notes |-> None]

Reminder ==
    [user_id : STRING, title : STRING, schedule : STRING,
     channel : {"push", "email", "sms"}, active : BOOLEAN]

ReminderDefaults == [channel |-> "push", active |-> TRUE]

Message == [from_user_id : STRING, to_user_id : STRING, room : STRING, text : STRING]

MessageDefaults == [to_user_id |-> None, room |-> None]

\* pydantic validation of a request body: the body with the defaults filled
\* in when that is an instance of the model, and a ValidationError otherwise
Validate(body, model, defaults) ==
    LET filled == body @@ defaults IN
    IF filled \in model
    THEN [ok |-> TRUE, value |-> filled]
    ELSE [ok |-> FALSE]

-----------------------------------------------------------------------------
(* The document store (database module): insert and find-with-filter *)

Collections == {"user", "post", "session", "reminder", "message"}

ObjectId(n) == [type |-> "ObjectId", value |-> n]

\* str(ObjectId)
str(id) == [type |-> "str", value |-> ToString(id.value)]

Matches(doc, filt) == \A k \in DOMAIN filt : k \in DOMAIN doc /\ doc[k] = filt[k]

Take(s, n) == SubSeq(s, 1, IF Len(s) < n THEN Len(s) ELSE n)

\* create_document(collection_name, data) -> str id, and the store after it
create_document(st, coll, data) ==
    LET id == ObjectId(Len(st[coll]) + 1) IN
    [store |-> [st EXCEPT ![coll] = Append(@, [_id |-> id] @@ data)],
     id |-> str(id)]

\* get_documents(collection_name, filter_dict, limit) -> list of documents
get_documents(st, coll, filt, limit) ==
    Take(SelectSeq(st[coll], LAMBDA doc : Matches(doc, filt)), limit)

\* db.list_collection_names(): the collections that hold a document
list_collection_names(st) == {c \in Collections : st[c] /= <<>>}

-----------------------------------------------------------------------------
(* Requests and responses *)

NoRequest == [op |-> "none"]
NoResponse == [status |-> 0]
NoCreate == [coll |-> "none"]

EmptyStore == [c \in Collections |-> <<>>]

ListLimit == 100

ValidationError == [status |-> 422, body |-> "validation error"]

GetCall(coll) == [fn |-> "get_documents", coll |-> coll]
CreateCall(coll) == [fn |-> "create_document", coll |-> coll]

Respond(req, resp, cs) ==
    /\ request' = req
    /\ response' = resp
    /\ calls' = cs

\* for it in items: if it.get("_id") is not None: it["_id"] = str(_id)
IdsToStr(items) ==
    [i \in 1..Len(items) |->
        IF "_id" \in DOMAIN items[i]
        THEN [items[i] EXCEPT !._id = str(@)]
        ELSE items[i]]

-----------------------------------------------------------------------------
(* Request inputs *)

Passwords == {"", "pw"}

LoginBodies ==
    [email : EmailStr \cup {"not-an-email"}, password : Passwords]

PostBodies ==
    { [user_id |-> "u1", content |-> "hi"],
      [user_id |-> "u1", content |-> "hi", audience |-> None],
      [user_id |-> "u1", content |-> "hi", audience |-> "child"],
      [content |-> "hi"] }

SessionBodies ==
    { [user_id |-> "u1", counselor_id |-> "c1", scheduled_at |-> "2026-01-05T10:00"],
      [user_id |-> "u1", counselor_id |-> "c1", scheduled_at |-> "2026-01-05T10:00",
       mode |-> "phone"] }

ReminderBodies ==
    { [user_id |-> "u1", title |-> "breathe", schedule |-> "0 9 * * *"],
      [user_id |-> "u1", title |-> "breathe", schedule |-> "0 9 * * *",
       channel |-> "fax"] }

MessageBodies ==
    { [from_user_id |-> "u1", to_user_id |-> "u2", room |-> "age:teen", text |-> "hello"],
      [from_user_id |-> "u1", to_user_id |-> "u2"] }

\* a query parameter is None when the query string omits it
AudienceQueries == {None, "", "all", "teen"}
UserIdQueries == {None, "", "u1"}
CounselorIdQueries == {None, "c1"}
ToUserIdQueries == {None, "", "u2"}
RoomQueries == {None, "age:teen"}

-----------------------------------------------------------------------------
(* Handlers (src/main.py) *)

\* GET /
Root ==
    /\ Respond([op |-> "root"],
               [status |-> 200, body |-> [name |-> "Sahara", status |-> "ok"]], <<>>)
    /\ UNCHANGED <<store, created, inserts, analysed>>

\* GET /test, with the store handle initialised
TestDatabase ==
    /\ Respond([op |-> "test"],
               [status |-> 200,
                body |-> [connection_status |-> "Connected",
                          collections |-> list_collection_names(store)]],
               <<[fn |-> "list_collection_names", coll |-> "*"]>>)
    /\ UNCHANGED <<store, created, inserts, analysed>>

\* the password compared with the stored hash
login_CheckPassword(st, body) ==
    LET req == Validate(body, LoginRequest, <<>>) IN
    IF ~req.ok THEN ValidationError
    ELSE LET users == get_documents(st, "user",
                          [email |-> req.value.email,
                           password_hash |-> req.value.password], 1) IN
         IF users = <<>>
         THEN [status |-> 401, body |-> "Invalid credentials"]
         ELSE [status |-> 200,
               body |-> [token |-> "demo-token", user |-> [email |-> req.value.email]]]

\* login(req: LoginRequest)
login(st, body) ==
    LET req == Validate(body, LoginRequest, <<>>) IN
    IF ~req.ok THEN ValidationError
    ELSE LET users == get_documents(st, "user", [email |-> req.value.email], 1) IN
         IF users = <<>>
         THEN [status |-> 401, body |-> "Invalid credentials"]
         ELSE [status |-> 200,
               body |-> [token |-> "demo-token", user |-> [email |-> req.value.email]]]

\* POST /auth/login
Login ==
    /\ \E body \in LoginBodies :
          Respond([op |-> "login", body |-> body], login(store, body),
                  IF Validate(body, LoginRequest, <<>>).ok
                  THEN <<GetCall("user")>> ELSE <<>>)
    /\ UNCHANGED <<store, created, inserts, analysed>>

\* a create handler: validate the body, insert it, return {"id": ...}
Create(op, coll, body, model, defaults) ==
    LET v == Validate(body, model, defaults) IN
    IF ~v.ok
    THEN /\ Respond([op |-> op, body |-> body], ValidationError, <<>>)
         /\ UNCHANGED <<store, created, inserts, analysed>>
    ELSE LET r == create_document(store, coll, v.value) IN
         /\ inserts < MaxCreates
         /\ Respond([op |-> op, body |-> body],
                    [status |-> 200, body |-> [id |-> r.id]], <<CreateCall(coll)>>)
         /\ store' = r.store
         /\ created' = [coll |-> coll, body |-> v.value, id |-> r.id]
         /\ inserts' = inserts + 1
         /\ UNCHANGED analysed

\* POST /posts
CreatePost == \E body \in PostBodies : Create("create_post", "post", body, Post, PostDefaults)

\* POST /sessions
BookSession ==
    \E body \in SessionBodies :
        Create("book_session", "session", body, Session, SessionDefaults)

\* POST /reminders
CreateReminder ==
    \E body \in ReminderBodies :
        Create("create_reminder", "reminder", body, Reminder, ReminderDefaults)

\* the last stored message replaced instead of a new one appended
SendMessage_Overwrite ==
    \E body \in MessageBodies :
        LET v == Validate(body, Message, MessageDefaults) IN
        /\ v.ok
        /\ store["message"] /= <<>>
        /\ inserts < MaxCreates
        /\ Respond([op |-> "send_message", body |-> body],
                   [status |-> 200, body |-> [id |-> str(ObjectId(Len(store["message"])))]],
                   <<CreateCall("message")>>)
        /\ store' = [store EXCEPT !["message"][Len(store["message"])] =
                        [_id |-> ObjectId(Len(store["message"]))] @@ v.value]
        /\ created' = [coll |-> "message", body |-> v.value,
                       id |-> str(ObjectId(Len(store["message"])))]
        /\ inserts' = inserts + 1
        /\ UNCHANGED analysed

\* POST /messages
SendMessage ==
    \E body \in MessageBodies :
        Create("send_message", "message", body, Message, MessageDefaults)

\* the posts read from the message collection
list_posts_WrongCollection(st, audience) ==
    LET filt == IF Truthy(audience) THEN [audience |-> audience] ELSE <<>> IN
    IdsToStr(get_documents(st, "message", filt, ListLimit))

\* no limit passed to the store
list_posts_NoLimit(st, audience) ==
    LET filt == IF Truthy(audience) THEN [audience |-> audience] ELSE <<>> IN
    IdsToStr(get_documents(st, "post", filt, Len(st["post"])))

\* list_posts(audience: Optional[str] = None)
list_posts(st, audience) ==
    LET filt == IF Truthy(audience) THEN [audience |-> audience] ELSE <<>> IN
    IdsToStr(get_documents(st, "post", filt, ListLimit))

\* GET /posts
ListPosts ==
    /\ \E audience \in AudienceQueries :
          Respond([op |-> "list_posts", query |-> [audience |-> audience]],
                  [status |-> 200, body |-> list_posts(store, audience)],
                  <<GetCall("post")>>)
    /\ UNCHANGED <<store, created, inserts, analysed>>

\* list_sessions(user_id: Optional[str] = None, counselor_id: Optional[str] = None)
list_sessions(st, user_id, counselor_id) ==
    LET filt == (IF Truthy(user_id) THEN [user_id |-> user_id] ELSE <<>>)
                @@ (IF Truthy(counselor_id) THEN [counselor_id |-> counselor_id] ELSE <<>>)
    IN IdsToStr(get_documents(st, "session", filt, ListLimit))

\* GET /sessions
ListSessions ==
    /\ \E user_id \in UserIdQueries, counselor_id \in CounselorIdQueries :
          Respond([op |-> "list_sessions",
                   query |-> [user_id |-> user_id, counselor_id |-> counselor_id]],
                  [status |-> 200, body |-> list_sessions(store, user_id, counselor_id)],
                  <<GetCall("session")>>)
    /\ UNCHANGED <<store, created, inserts, analysed>>

\* list_reminders(user_id: str)
list_reminders(st, user_id) ==
    IdsToStr(get_documents(st, "reminder", [user_id |-> user_id], ListLimit))

\* user_id declared Optional[str] = None like the other list handlers
ListReminders_Optional ==
    /\ \E user_id \in UserIdQueries :
          Respond([op |-> "list_reminders", query |-> [user_id |-> user_id]],
                  [status |-> 200,
                   body |-> IdsToStr(get_documents(store, "reminder",
                                IF Truthy(user_id) THEN [user_id |-> user_id] ELSE <<>>,
                                ListLimit))],
                  <<GetCall("reminder")>>)
    /\ UNCHANGED <<store, created, inserts, analysed>>

\* GET /reminders: user_id is a required query parameter
ListReminders ==
    /\ \E user_id \in UserIdQueries :
          IF user_id = None
          THEN Respond([op |-> "list_reminders", query |-> [user_id |-> user_id]],
                       ValidationError, <<>>)
          ELSE Respond([op |-> "list_reminders", query |-> [user_id |-> user_id]],
                       [status |-> 200, body |-> list_reminders(store, user_id)],
                       <<GetCall("reminder")>>)
    /\ UNCHANGED <<store, created, inserts, analysed>>

\* list_messages(to_user_id: Optional[str] = None, room: Optional[str] = None)
list_messages(st, to_user_id, room) ==
    LET filt == (IF Truthy(to_user_id) THEN [to_user_id |-> to_user_id] ELSE <<>>)
                @@ (IF Truthy(room) THEN [room |-> room] ELSE <<>>)
    IN IdsToStr(get_documents(st, "message", filt, ListLimit))

\* GET /messages
ListMessages ==
    /\ \E to_user_id \in ToUserIdQueries, room \in RoomQueries :
          Respond([op |-> "list_messages",
                   query |-> [to_user_id |-> to_user_id, room |-> room]],
                  [status |-> 200, body |-> list_messages(store, to_user_id, room)],
                  <<GetCall("message")>>)
    /\ UNCHANGED <<store, created, inserts, analysed>>

\* POST /analyze
Analyze(req) ==
    /\ Respond([op |-> "analyze", body |-> req],
               [status |-> 200, body |-> analyze_emotion(req)], <<>>)
    /\ analysed' = IF \E e \in analysed : e.text = req.text
                   THEN analysed
                   ELSE analysed \cup {[text |-> req.text, language |-> req.language,
                                        body |-> analyze_emotion(req)]}
    /\ UNCHANGED <<store, created, inserts>>

AnalyzeSample == \E req \in SampleEmotionRequests : Analyze(req)

-----------------------------------------------------------------------------
(* Stores the service can be started on *)

UserA ==
    [_id |-> ObjectId(1), name |-> "A", email |-> "a@x.org", password_hash |-> "pw"]

WithIds(docs) == [i \in 1..Len(docs) |-> [_id |-> ObjectId(i)] @@ docs[i]]

PostDoc(u, a) == [user_id |-> u, content |-> "hi", audience |-> a, tags |-> <<>>]

SessionDoc(u, c) ==
    [user_id |-> u, counselor_id |-> c, scheduled_at |-> "2026-01-05T10:00",
     mode |-> "chat", status |-> "pending", notes |-> None]

ReminderDoc(u) ==
    [user_id |-> u, title |-> "breathe", schedule |-> "0 9 * * *",
     channel |-> "push", active |-> TRUE]

MessageDoc(t, r) == [from_user_id |-> "u1", to_user_id |-> t, room |-> r, text |-> "hello"]

SeededStore ==
    [c \in Collections |->
        CASE c = "user" -> <<UserA>>
          [] c = "post" -> WithIds(<<PostDoc("u1", "all"), PostDoc("u2", "teen"),
                                     PostDoc("u1", None)>>)
          [] c = "session" -> WithIds(<<SessionDoc("u1", "c1"), SessionDoc("u1", "c2"),
                                        SessionDoc("u2", "c1")>>)
          [] c = "reminder" -> WithIds(<<ReminderDoc("u1"), ReminderDoc("u2"),
                                         ReminderDoc("")>>)
          [] c = "message" -> WithIds(<<MessageDoc("u2", None), MessageDoc(None, "age:teen"),
                                        MessageDoc("u2", "age:teen"),
                                        MessageDoc(None, None)>>)]

LoadedStore ==
    [c \in Collections |->
        CASE c = "user" -> <<UserA>>
          [] c = "post" -> WithIds([i \in 1..Backlog |-> PostDoc("u1", "all")])
          [] c = "session" -> WithIds([i \in 1..Backlog |-> SessionDoc("u1", "c1")])
          [] c = "reminder" -> WithIds([i \in 1..Backlog |-> ReminderDoc("u1")])
          [] c = "message" -> WithIds([i \in 1..Backlog |-> MessageDoc("u2", "age:teen")])]

Init ==
    /\ store \in {EmptyStore, SeededStore, LoadedStore}
    /\ request = NoRequest
    /\ response = NoResponse
    /\ calls = <<>>
    /\ created = NoCreate
    /\ inserts = 0
    /\ analysed = {}

Next ==
    \/ Root
    \/ TestDatabase
    \/ Login
    \/ CreatePost
    \/ ListPosts
    \/ BookSession
    \/ ListSessions
    \/ CreateReminder
    \/ ListReminders
    \/ SendMessage
    \/ ListMessages
    \/ AnalyzeSample

Spec == Init /\ [][Next]_vars

-----------------------------------------------------------------------------
(* The classifier on its own: one pending /analyze request, then its handler *)

InitAnalyze ==
    /\ store = EmptyStore
    /\ \E req \in EmotionRequests : request = [op |-> "analyze", body |-> req]
    /\ response = NoResponse
    /\ calls = <<>>
    /\ created = NoCreate
    /\ inserts = 0
    /\ analysed = {}

AnalyzePending ==
    /\ response = NoResponse
    /\ request.op = "analyze"
    /\ Analyze(request.body)

NextAnalyze == AnalyzePending

SpecAnalyze == InitAnalyze /\ [][NextAnalyze]_vars

-----------------------------------------------------------------------------
(* Properties of the classifier, stated without its helpers *)

\* the typed character c is the lower-case keyword character d in some casing
Folds(c, d) == c = d \/ (d \in DOMAIN UpperOf /\ c = UpperOf[d])

\* the keyword w occurs in the text, in any casing
OccursIn(w, text) ==
    \E i \in 0..(Len(text) - Len(w)) : \A j \in 1..Len(w) : Folds(text[i + j], w[j])

RuleWords == <<SadWords, AngerWords, FearWords, BurnoutWords>>

RuleHit(k, text) == k = 5 \/ \E n \in 1..Len(RuleWords[k]) : OccursIn(RuleWords[k][n], text)

FirstRule(text) ==
    CHOOSE k \in 1..5 : RuleHit(k, text) /\ \A j \in 1..(k - 1) : ~RuleHit(j, text)

RuleLabel(k, text) ==
    CASE k = 1 -> IF OccursIn(Lonely, text) \/ OccursIn(Alone, text)
                  THEN "loneliness" ELSE "sadness"
      [] k = 2 -> "anger"
      [] k = 3 -> "fear"
      [] k = 4 -> IF OccursIn(Burnout, text) THEN "burnout" ELSE "stress"
      [] k = 5 -> "neutral"

RuleSuggestions == <<SuggestionsA, SuggestionsB, SuggestionsC, SuggestionsD, SuggestionsE>>

RecognizedKeywords ==
    Range(SadWords) \cup Range(AngerWords) \cup Range(FearWords) \cup Range(BurnoutWords)

Analyzed == request.op = "analyze" /\ response.status = 200

\* C1: the response carries the label and the suggestion list of the first
\* rule, in the order sadness/loneliness, anger, fear, burnout/stress, default,
\* one of whose keywords occurs in the lower-cased text; a text with keywords
\* of several rules resolves to the lowest-numbered one.
C1_FirstMatchingRule ==
    Analyzed =>
        LET text == request.body.text
            k == FirstRule(text)
        IN /\ response.body.label = RuleLabel(k, text)
           /\ response.body.suggestions = RuleSuggestions[k]

C1_Witness ==
    /\ Analyzed
    /\ RuleHit(1, request.body.text)
    /\ RuleHit(2, request.body.text)
    /\ response.body.label = "sadness"
    /\ response.body.suggestions = SuggestionsA

\* C2: a text containing "lonely" or "alone" in any casing, whatever other
\* keywords it contains, is labelled loneliness with score 0.8.
C2_LonelyOrAlone ==
    (Analyzed /\ (OccursIn(Lonely, request.body.text) \/ OccursIn(Alone, request.body.text)))
        => response.body.label = "loneliness" /\ response.body.score = "0.8"

C2_Witness ==
    /\ Analyzed
    /\ OccursIn(Alone, request.body.text)
    /\ ~Contains(Alone, request.body.text)
    /\ RuleHit(2, request.body.text)
    /\ response.body.label = "loneliness"

\* C3: the label is neutral exactly when none of the 17 keywords occurs in
\* the lower-cased text; then the score is 0.5 and the suggestions are the
\* 2-item list E, otherwise the score is 0.8 and there are 3 suggestions.
C3_NeutralIffNoKeyword ==
    /\ Cardinality(RecognizedKeywords) = 17
    /\ Analyzed =>
        LET text == request.body.text
            body == response.body
        IN /\ body.label = "neutral" <=> \A w \in RecognizedKeywords : ~OccursIn(w, text)
           /\ body.label = "neutral" =>
                 body.score = "0.5" /\ body.suggestions = SuggestionsE
                     /\ Len(body.suggestions) = 2
           /\ body.label /= "neutral" =>
                 body.score = "0.8" /\ Len(body.suggestions) = 3

C3_Witness ==
    /\ Analyzed
    /\ Len(request.body.text) > 0
    /\ response.body.label = "neutral"
    /\ response.body.score = "0.5"

-----------------------------------------------------------------------------
(* Properties of the API *)

\* C4: a call of analyze_emotion makes no store call, and its result equals
\* the result of the first call with the same text, whatever the language
\* of either call and whatever happened to the store in between.
C4_SameTextSameResult ==
    Analyzed =>
        /\ calls = <<>>
        /\ \A e \in analysed : e.text = request.body.text => e.body = response.body

C4_Witness ==
    /\ Analyzed
    /\ inserts > 0
    /\ \E e \in analysed :
          /\ e.text = request.body.text
          /\ e.language /= request.body.language
          /\ e.body = response.body

\* the stored posts the list filter for the created post's audience selects
MatchingCreated ==
    {i \in 1..Len(store["post"]) :
        created.body.audience = None \/ store["post"][i].audience = created.body.audience}

ListedAfterCreate ==
    /\ request.op = "list_posts"
    /\ response.status = 200
    /\ created.coll = "post"
    /\ request.query.audience = created.body.audience

ListsCreated ==
    \E i \in 1..Len(response.body) :
        /\ "_id" \in DOMAIN response.body[i]
        /\ response.body[i]._id = created.id
        /\ \A k \in DOMAIN created.body :
              k \in DOMAIN response.body[i] /\ response.body[i][k] = created.body[k]

\* C5 as stated: after a successful POST /posts, GET /posts with the created
\* post's audience lists a record with the submitted fields and the returned id.
C5_CreateThenList == ListedAfterCreate => ListsCreated

\* C5 as amended: the same, provided the store holds at most 100 posts the
\* filter selects.
C5_CreateThenListWithinLimit ==
    (ListedAfterCreate /\ Cardinality(MatchingCreated) <= 100) => ListsCreated

C5_Witness ==
    /\ ListedAfterCreate
    /\ Cardinality(MatchingCreated) <= 100
    /\ Len(store["post"]) > 1
    /\ ListsCreated

\* C6: GET /reminders without user_id is a validation error and makes no
\* store call; GET /posts, /sessions and /messages without any filter succeed.
C6_RequiredUserId ==
    /\ (request.op = "list_reminders" /\ request.query.user_id = None)
           => response = ValidationError /\ calls = <<>>
    /\ (request.op = "list_posts" /\ request.query.audience = None)
           => response.status = 200
    /\ (request.op = "list_sessions" /\ request.query.user_id = None
                                     /\ request.query.counselor_id = None)
           => response.status = 200
    /\ (request.op = "list_messages" /\ request.query.to_user_id = None
                                     /\ request.query.room = None)
           => response.status = 200

C6_Witness ==
    /\ request.op = "list_reminders"
    /\ request.query.user_id = None
    /\ store["reminder"] /= <<>>
    /\ response.status = 422

HasUser(st, email) == \E i \in 1..Len(st["user"]) : st["user"][i].email = email

\* C7: a valid login request fails with 401 when no user has that email and
\* succeeds with the placeholder token when one has, whatever the password;
\* the store is left as it was.
C7_LoginByEmailOnly ==
    [][(request'.op = "login" /\ request'.body.email \in EmailStr) =>
          /\ store' = store
          /\ response' =
                IF HasUser(store, request'.body.email)
                THEN [status |-> 200,
                      body |-> [token |-> "demo-token",
                                user |-> [email |-> request'.body.email]]]
                ELSE [status |-> 401, body |-> "Invalid credentials"]]_vars

C7_Witness ==
    /\ request.op = "login"
    /\ response.status = 200
    /\ \E i \in 1..Len(store["user"]) :
          /\ store["user"][i].email = request.body.email
          /\ store["user"][i].password_hash /= request.body.password

CreateOps ==
    [create_post |-> "post", book_session |-> "session",
     create_reminder |-> "reminder", send_message |-> "message"]

IsPrefix(s, t) == Len(s) <= Len(t) /\ SubSeq(t, 1, Len(s)) = s

\* C8: the store is append-only; a successful POST adds exactly one record
\* to its own collection and leaves the others alone; every other request
\* leaves every collection unchanged.
C8_AppendOnly ==
    [][/\ \A c \in Collections : IsPrefix(store[c], store'[c])
       /\ (request'.op \in DOMAIN CreateOps /\ response'.status = 200) =>
             /\ Len(store'[CreateOps[request'.op]]) = Len(store[CreateOps[request'.op]]) + 1
             /\ \A c \in Collections \ {CreateOps[request'.op]} : store'[c] = store[c]
       /\ request'.op \notin DOMAIN CreateOps => store' = store]_vars

C8_Witness ==
    /\ request.op = "send_message"
    /\ response.status = 200
    /\ created.coll = "message"
    /\ Len(store["message"]) > 1

ListOps == {"list_posts", "list_sessions", "list_reminders", "list_messages"}

\* C9: a list response holds at most 100 records, and every identifier in
\* it is a string.
C9_ListCapped ==
    (request.op \in ListOps /\ response.status = 200) =>
        /\ Len(response.body) <= 100
        /\ \A i \in 1..Len(response.body) :
              "_id" \in DOMAIN response.body[i] => response.body[i]._id.type = "str"

C9_Witness ==
    /\ request.op = "list_posts"
    /\ response.status = 200
    /\ Len(store["post"]) > 100
    /\ Len(response.body) = 100
    /\ response.body[100]._id.type = "str"

AllHave(items, field, value) == \A i \in 1..Len(items) : items[i][field] = value

\* C10: every record a list endpoint returns has each given filter parameter
\* as the value of that field, for every given value, the empty string too.
C10_FiltersExact ==
    response.status = 200 =>
        /\ (request.op = "list_posts" /\ request.query.audience /= None)
               => AllHave(response.body, "audience", request.query.audience)
        /\ (request.op = "list_sessions" /\ request.query.user_id /= None)
               => AllHave(response.body, "user_id", request.query.user_id)
        /\ (request.op = "list_sessions" /\ request.query.counselor_id /= None)
               => AllHave(response.body, "counselor_id", request.query.counselor_id)
        /\ (request.op = "list_messages" /\ request.query.to_user_id /= None)
               => AllHave(response.body, "to_user_id", request.query.to_user_id)
        /\ (request.op = "list_messages" /\ request.query.room /= None)
               => AllHave(response.body, "room", request.query.room)
        /\ (request.op = "list_reminders" /\ request.query.user_id /= None)
               => AllHave(response.body, "user_id", request.query.user_id)

====
